---- MODULE Spec2Model ----
(***************************************************************************)
(* A model of the template filters of best_templatetags                    *)
(* (src/best_templatetags/templatetags/best_filters.py).                   *)
(*                                                                         *)
(* Every filter is a pure function of its arguments.  A filter call is     *)
(* modelled as one step: Init draws the arguments (value, arg) from        *)
(* bounded sets with pc = "call"; the filter's action computes the return  *)
(* value (or the exception that leaves the function) into ret and sets     *)
(* pc = "done".  There is one specification per filter.                    *)
(*                                                                         *)
(* Python strings are sequences of one-character strings.                  *)
(***************************************************************************)
EXTENDS Integers, Sequences, FiniteSets, TLC

VARIABLES pc, value, arg, ret

vars == <<pc, value, arg, ret>>

\* ------------------------------------------------------------ results

\* A normal return of a filter.
Ok(v) == [kind |-> "ok", val |-> v]

\* An exception that leaves the filter.
Raise(e) == [kind |-> "raise", val |-> <<e>>]

\* Before the call there is no result.
NoRet == [kind |-> "none", val |-> <<>>]

\* ------------------------------------------------------------ bounds

MaxStrLen == 3
MaxArgLen == 5

\* ------------------------------------------------------------ strings

\* All sequences over alphabet of length at most n.
StrUpTo(alphabet, n) == UNION {[1..k -> alphabet] : k \in 0..n}

\* Python's s.find(c) + 1 for a one-character c: the first index of c, 0 if none.
find(s, c) == IF \E i \in 1..Len(s) : s[i] = c THEN CHOOSE i \in 1..Len(s) : s[i] = c /\ \A j \in 1..(i-1) : s[j] # c ELSE 0

\* Python's s.split(sep) for a one-character sep: every occurrence separates.
RECURSIVE split(_, _)
split(s, sep) == IF find(s, sep) = 0 THEN <<s>> ELSE <<SubSeq(s, 1, find(s, sep) - 1)>> \o split(SubSeq(s, find(s, sep) + 1, Len(s)), sep)

\* Python's s.startswith(p).
startswith(s, p) == Len(p) <= Len(s) /\ SubSeq(s, 1, Len(p)) = p

\* rep before every character of s and after the last one: the result of
\* replacing the empty string.
RECURSIVE interleave(_, _)
interleave(s, rep) == IF s = <<>> THEN rep ELSE rep \o <<Head(s)>> \o interleave(Tail(s), rep)

\* Python's s.replace(pat, rep): the occurrences of pat, found from the left
\* and not overlapping, are replaced.
RECURSIVE str_replace(_, _, _)
str_replace(s, pat, rep) == IF pat = <<>> THEN interleave(s, rep) ELSE IF s = <<>> THEN <<>> ELSE IF startswith(s, pat) THEN rep \o str_replace(SubSeq(s, Len(pat) + 1, Len(s)), pat, rep) ELSE <<Head(s)>> \o str_replace(Tail(s), pat, rep)

\* ------------------------------------------------------------ replace

\* A replace that takes the replacement from the last part of the argument.
replace_lastpart(str, a) == IF a = <<>> THEN Raise("IndexError") ELSE LET params == split(a, a[1]) IN IF Len(params) < 3 THEN Raise("IndexError") ELSE Ok(str_replace(str, params[2], params[Len(params)]))

\* replace(str, arg): sep = arg[0]; params = arg.split(sep); pat = params[1];
\* rep = params[2]; return str.replace(pat, rep).  Indexing past the end of
\* arg or of params raises IndexError.
replace(str, a) == IF a = <<>> THEN Raise("IndexError") ELSE LET params == split(a, a[1]) IN IF Len(params) < 3 THEN Raise("IndexError") ELSE Ok(str_replace(str, params[2], params[3]))

HelloWorld == <<"h", "e", "l", "l", "o", " ", "w", "o", "r", "l", "d">>
HelloEric == <<"h", "e", "l", "l", "o", " ", "e", "r", "i", "c">>
WorldEric == <<"/", "w", "o", "r", "l", "d", "/", "e", "r", "i", "c">>

ReplaceStrs == StrUpTo({"a", "b"}, MaxStrLen) \cup {HelloWorld}
ReplaceArgs == StrUpTo({"/", "a", "b"}, MaxArgLen) \cup {WorldEric}

InitReplace == pc = "call" /\ value \in ReplaceStrs /\ arg \in ReplaceArgs /\ ret = NoRet

Call_replace == pc = "call" /\ pc' = "done" /\ ret' = replace(value, arg) /\ UNCHANGED <<value, arg>>

SpecReplace == InitReplace /\ [][Call_replace]_vars

\* The number of parts arg.split(arg[0]) yields: one more than the number of
\* occurrences of the first character.
NumParts(a) == Cardinality({i \in 1..Len(a) : a[i] = a[1]}) + 1

\* The index of the n-th occurrence of the first character of a, Len(a) + 1 if
\* there are fewer.
NthSep(a, n) == IF NumParts(a) > n THEN CHOOSE i \in 1..Len(a) : a[i] = a[1] /\ Cardinality({j \in 1..i : a[j] = a[1]}) = n ELSE Len(a) + 1

lower(c) == IF c = "A" THEN "a" ELSE IF c = "I" THEN "i" ELSE IF c = "J" THEN "j" ELSE c

\* The case-folded string, as re.I compares.
casefold(s) == [i \in 1..Len(s) |-> lower(s[i])]

\* Whether the literal pattern pat matches at the start of s, under re.I when
\* ignorecase.
re_match(pat, s, ignorecase) == IF ignorecase THEN startswith(casefold(s), casefold(pat)) ELSE startswith(s, pat)

\* re.compile(pat, flags).sub(rep, s) for a pattern of literal characters and a
\* replacement without escapes: the matches of pat, found from the left and not
\* overlapping, are replaced by rep (an empty pattern matches before every
\* character and at the end).
RECURSIVE re_sub(_, _, _, _)
re_sub(pat, rep, s, ignorecase) == IF pat = <<>> THEN interleave(s, rep) ELSE IF s = <<>> THEN <<>> ELSE IF re_match(pat, s, ignorecase) THEN rep \o re_sub(pat, rep, SubSeq(s, Len(pat) + 1, Len(s)), ignorecase) ELSE <<Head(s)>> \o re_sub(pat, rep, Tail(s), ignorecase)

\* resub(str, arg): sep = arg[0]; params = arg.split(sep); pat = params[1];
\* rep = params[2]; flags = re.I if params[-1] == 'i' else 0;
\* return re.compile(pat, flags).sub(rep, str).
resub(str, a) == IF a = <<>> THEN Raise("IndexError") ELSE LET params == split(a, a[1]) IN IF Len(params) < 3 THEN Raise("IndexError") ELSE Ok(re_sub(params[2], params[3], str, params[Len(params)] = <<"i">>))

ResubStrs == StrUpTo({"a", "A"}, MaxStrLen)
ResubArgs == StrUpTo({"/", "a", "A", "i"}, MaxArgLen)

InitResub == pc = "call" /\ value \in ResubStrs /\ arg \in ResubArgs /\ ret = NoRet

Call_resub == pc = "call" /\ pc' = "done" /\ ret' = resub(value, arg) /\ UNCHANGED <<value, arg>>

SpecResub == InitResub /\ [][Call_resub]_vars

\* Whether arg carries a flag segment equal to 'i' after the replacement: a
\* fourth or later part that ends the argument.
HasFlagSegmentI(a) == NumParts(a) >= 4 /\ a[1] # "i" /\ a[Len(a)] = "i" /\ a[Len(a) - 1] = a[1]

\* C9: resub substitutes the second part (as a pattern) by the third part, and
\* matches case-insensitively if and only if arg carries an additional trailing
\* segment 'i' after the replacement; a plain three-part argument matches
\* case-sensitively whatever its replacement is.
C9_ResubFlagOnlyFromFlagSegment ==
    (pc = "done" /\ ret.kind = "ok") =>
        ret.val = re_sub(SubSeq(arg, 2, NthSep(arg, 2) - 1), SubSeq(arg, NthSep(arg, 2) + 1, NthSep(arg, 3) - 1), value, HasFlagSegmentI(arg))

\* ------------------------------------------------------------ truncat

\* A regular expression is modelled as a sequence of atoms, each matching one
\* character: "." matches any character but a line break, "\\." matches a dot,
\* any other atom matches itself.
atom_matches(atom, c) == IF atom = "." THEN c # "\n" ELSE IF atom = "\\." THEN c = "." ELSE c = atom

\* Whether the atoms of pattern match s from index i on.
match_at(pattern, s, i) == i + Len(pattern) - 1 <= Len(s) /\ \A k \in 1..Len(pattern) : atom_matches(pattern[k], s[i + k - 1])

\* The end (exclusive) of what a greedy '.*' consumes from index i: the next
\* line break, or the end of the string.
RECURSIVE dotstar_end(_, _)
dotstar_end(s, i) == IF i > Len(s) \/ s[i] = "\n" THEN i ELSE dotstar_end(s, i + 1)

\* re.sub(pattern + '.*', '', s) from index i on: every match of the pattern
\* followed by the rest of its line is deleted, the scan goes on behind it.
RECURSIVE sub_dotstar(_, _, _)
sub_dotstar(pattern, s, i) == IF i > Len(s) THEN <<>> ELSE IF match_at(pattern, s, i) /\ dotstar_end(s, i + Len(pattern)) > i THEN sub_dotstar(pattern, s, dotstar_end(s, i + Len(pattern))) ELSE <<s[i]>> \o sub_dotstar(pattern, s, i + 1)

\* truncat(str, pattern): return re.sub(pattern + '.*', '', str).
truncat(str, pattern) == Ok(sub_dotstar(pattern, str, 1))

MaxPatLen == 2

AbcXyz == <<"a", "b", "c", ".", ".", ".", "x", "y", "z">>

TruncatStrs == StrUpTo({"a", ".", "\n"}, MaxStrLen + 1) \cup {AbcXyz}
TruncatPatterns == StrUpTo({"a", ".", "\\."}, MaxPatLen) \ {<<>>}

InitTruncat == pc = "call" /\ value \in TruncatStrs /\ arg \in TruncatPatterns /\ ret = NoRet

Call_truncat == pc = "call" /\ pc' = "done" /\ ret' = truncat(value, arg) /\ UNCHANGED <<value, arg>>

SpecTruncat == InitTruncat /\ [][Call_truncat]_vars

\* The index of the first match of pattern in s, 0 if it does not match.
first_match(pattern, s) == IF \E i \in 1..(Len(s) + 1) : match_at(pattern, s, i) THEN CHOOSE i \in 1..(Len(s) + 1) : match_at(pattern, s, i) /\ \A j \in 1..(i - 1) : ~match_at(pattern, s, j) ELSE 0

\* C8: truncat returns the prefix of the string that ends just before the first
\* match of the pattern, whatever follows the match (line breaks included), and
\* the string itself when the pattern does not match.
C8_TruncatToEndOfString ==
    pc = "done" =>
        /\ ret.kind = "ok"
        /\ ret.val = IF first_match(arg, value) = 0 THEN value ELSE SubSeq(value, 1, first_match(arg, value) - 1)

\* ------------------------------------------------------------ timesince_simple

MaxDays == 1500

\* A translated message with its %d argument (0 when it has none).
Message(msg, n) == [msg |-> msg, n |-> n]

\* Python's None, returned when the function ends without a return statement.
None == Message("None", 0)

\* Datetimes count half days; (t2 - t1).days is the floor of the difference in
\* days.
timedelta_days(t1, t2) == (t2 - t1) \div 2

\* timesince_simple(t1, t2): the chain of tests on days = (t2 - t1).days, all of
\* it under "if days:".  int(days / 365.25) is the floor of 4 * days / 1461.
timesince_simple(t1, t2) == LET days == timedelta_days(t1, t2) IN IF days # 0 THEN (IF days = 0 THEN Ok(Message("today", 0)) ELSE IF days < 7 THEN Ok(Message("%d days", days)) ELSE IF days < 14 THEN Ok(Message("one week", 0)) ELSE IF days < 30 THEN Ok(Message("%d weeks", days \div 7)) ELSE IF days < 60 THEN Ok(Message("one month", 0)) ELSE IF days < 365 THEN Ok(Message("%d months", days \div 30)) ELSE IF days < 730 THEN Ok(Message("one year", 0)) ELSE Ok(Message("%d years", (4 * days) \div 1461))) ELSE Ok(None)

InitTimesince == pc = "call" /\ value \in 0..1 /\ arg \in (-2)..(2 * MaxDays + 1) /\ ret = NoRet

Call_timesince_simple == pc = "call" /\ pc' = "done" /\ ret' = timesince_simple(value, arg) /\ UNCHANGED <<value, arg>>

SpecTimesince == InitTimesince /\ [][Call_timesince_simple]_vars

\* The phrase C5 gives for a difference of d whole days, d >= 0.
C5_Phrase(d) == IF d = 0 THEN Message("today", 0) ELSE IF d < 7 THEN Message("%d days", d) ELSE IF d < 14 THEN Message("one week", 0) ELSE IF d < 30 THEN Message("%d weeks", d \div 7) ELSE IF d < 60 THEN Message("one month", 0) ELSE IF d < 365 THEN Message("%d months", d \div 30) ELSE IF d < 730 THEN Message("one year", 0) ELSE Message("%d years", (4 * d) \div 1461)

\* C5: for every difference of d >= 0 whole days timesince_simple returns the
\* phrase of d's bucket: 'today' for 0, 'd days' below 7, 'one week' below 14,
\* 'N weeks' below 30, 'one month' below 60, 'N months' below 365, 'one year'
\* below 730, 'N years' from 730 on.
C5_TimesinceBuckets ==
    (pc = "done" /\ timedelta_days(value, arg) >= 0) =>
        (ret.kind = "ok" /\ ret.val = C5_Phrase(timedelta_days(value, arg)))

\* ------------------------------------------------------------ age

MaxYearSpan == 1

\* A date is <<year, month, day>>.
IsLeap(y) == y % 4 = 0 /\ (y % 100 # 0 \/ y % 400 = 0)

DaysInMonth(y, m) == IF m = 2 THEN (IF IsLeap(y) THEN 29 ELSE 28) ELSE IF m \in {4, 6, 9, 11} THEN 30 ELSE 31

DatesOfYear(y) == {<<y, m, d>> : m \in 1..12, d \in 1..31} \cap {dt \in {y} \X (1..12) \X (1..31) : dt[3] <= DaysInMonth(dt[1], dt[2])}

\* The day after date dt.
NextDate(dt) == IF dt[3] < DaysInMonth(dt[1], dt[2]) THEN <<dt[1], dt[2], dt[3] + 1>> ELSE IF dt[2] < 12 THEN <<dt[1], dt[2] + 1, 1>> ELSE <<dt[1] + 1, 1, 1>>

\* Python's tuple comparison (m1, d1) < (m2, d2).
tuple_lt(m1, d1, m2, d2) == m1 < m2 \/ (m1 = m2 /\ d1 < d2)

\* An age that counts the birthday itself as not yet reached.
age_not_on_birthday(bday, d) == Ok((d[1] - bday[1]) - (IF tuple_lt(d[2], d[3], bday[2], bday[3]) \/ (d[2] = bday[2] /\ d[3] = bday[3]) THEN 1 ELSE 0))

\* age(bday, d): (d.year - bday.year) - int((d.month, d.day) < (bday.month, bday.day)).
age(bday, d) == Ok((d[1] - bday[1]) - (IF tuple_lt(d[2], d[3], bday[2], bday[3]) THEN 1 ELSE 0))

ExampleBday == <<2006, 11, 9>>
ExampleEve == <<2018, 11, 8>>
ExampleDay == <<2018, 11, 9>>

Bdays == DatesOfYear(2004) \cup {ExampleBday}

\* The dates on which the filter is first rendered for a birthday: the day of
\* birth, and for the documented example a week before the twelfth birthday.
FirstRender(bday) == {bday} \cup (IF bday = ExampleBday THEN {<<2018, 11, 2>>} ELSE {})

InitAge == pc = "call" /\ value \in Bdays /\ arg \in FirstRender(value) /\ ret = NoRet

\* The template is rendered: age(bday, today).
Call_age == pc = "call" /\ pc' = "done" /\ ret' = age(value, arg) /\ UNCHANGED <<value, arg>>

\* A day passes: d = datetime.date.today() is the next date at the next render.
NextDay == pc = "done" /\ (arg[1] - value[1] <= MaxYearSpan \/ (value = ExampleBday /\ arg[1] = ExampleDay[1])) /\ arg' = NextDate(arg) /\ pc' = "call" /\ UNCHANGED <<value, ret>>

SpecAge == InitAge /\ [][Call_age \/ NextDay]_vars

\* Date d is not before date b.
NotBefore(d, b) == d[1] > b[1] \/ (d[1] = b[1] /\ ~tuple_lt(d[2], d[3], b[2], b[3]))

\* C7: for d not before bday, age is the difference of the years, less one when
\* (d.month, d.day) is before (bday.month, bday.day); it is never negative, 0 on
\* the day of birth, 11 on 2018-11-08 and 12 on 2018-11-09 for a birth on
\* 2006-11-09; and rendered on a birthday it is one more than the day before.
C7_Age ==
    /\ [](pc = "done" /\ NotBefore(arg, value) =>
            /\ ret.kind = "ok"
            /\ ret.val = (arg[1] - value[1]) - (IF arg[2] < value[2] \/ (arg[2] = value[2] /\ arg[3] < value[3]) THEN 1 ELSE 0)
            /\ ret.val >= 0
            /\ (arg = value => ret.val = 0)
            /\ (value = ExampleBday /\ arg = ExampleEve => ret.val = 11)
            /\ (value = ExampleBday /\ arg = ExampleDay => ret.val = 12))
    /\ [][(pc = "call" /\ pc' = "done" /\ ret.kind = "ok" /\ arg[2] = value[2] /\ arg[3] = value[3]) => ret'.val = ret.val + 1]_vars

\* The filter has been rendered on a birthday, a year or more after the birth,
\* after having been rendered the day before.
C7_Witness == pc = "done" /\ arg[2] = value[2] /\ arg[3] = value[3] /\ arg[1] > value[1] /\ ret.kind = "ok" /\ ret.val >= 1

\* ------------------------------------------------------------ hash

\* The keys an object may hold, the values it may hold under them (the empty
\* string is falsy), and the mark of a key it does not hold.
Keys == {"name", "color", "default_index"}
Values == {"", "v"}
Missing == "<missing>"

\* Python's None as a value of the lookup.
NoneValue == "None"

\* An object has dictionary items and attributes.
Objects == [items : [Keys -> Values \cup {Missing}], attrs : [Keys -> Values \cup {Missing}]]

\* Variable('object.' + name).resolve({'object': object}) for a well-formed
\* name: the dictionary lookup, then the attribute lookup; VariableDoesNotExist
\* when both fail.
Variable_resolve(object, name) == IF object.items[name] # Missing THEN Ok(object.items[name]) ELSE IF object.attrs[name] # Missing THEN Ok(object.attrs[name]) ELSE Raise("VariableDoesNotExist")

\* A lookup that takes an empty value for an absent one.
hash_or_default(object, attr) == IF Variable_resolve(object, attr).kind = "ok" /\ Variable_resolve(object, attr).val # "" THEN Variable_resolve(object, attr) ELSE IF Variable_resolve(object, "default_index").kind = "ok" THEN Variable_resolve(object, "default_index") ELSE Ok(NoneValue)

\* hash(object, attr): try object.<attr>; except VariableDoesNotExist: try
\* object.default_index; except VariableDoesNotExist: None.
hash(object, attr) == IF Variable_resolve(object, attr).kind = "ok" THEN Variable_resolve(object, attr) ELSE IF Variable_resolve(object, "default_index").kind = "ok" THEN Variable_resolve(object, "default_index") ELSE Ok(NoneValue)

InitHash == pc = "call" /\ value \in Objects /\ arg \in Keys /\ ret = NoRet

Call_hash == pc = "call" /\ pc' = "done" /\ ret' = hash(value, arg) /\ UNCHANGED <<value, arg>>

SpecHash == InitHash /\ [][Call_hash]_vars

\* Whether object holds key, as an item or as an attribute, and what it holds.
Holds(object, key) == object.items[key] # Missing \/ object.attrs[key] # Missing
Held(object, key) == IF object.items[key] # Missing THEN object.items[key] ELSE object.attrs[key]

MaxNodes == 3
MaxChunks == 3

\* --- the document tree BeautifulSoup(value) yields

\* A text node, a comment node, and an element (Tag) with its name, its list of
\* (attribute, value) pairs (as "for attr, val in tag.attrs" reads it), its
\* children and the flag that hides its own tags when it is rendered.
Text(t) == [type |-> "text", name |-> t, attrs |-> <<>>, contents |-> <<>>, hidden |-> FALSE]
Comment(t) == [type |-> "comment", name |-> t, attrs |-> <<>>, contents |-> <<>>, hidden |-> FALSE]
Tag(name, attrs, contents) == [type |-> "tag", name |-> name, attrs |-> attrs, contents |-> contents, hidden |-> FALSE]

\* --- the policy: allowed_tags.split(), tag.split(':'), dict(...)

isspace(c) == c \in {" ", "\t", "\n"}

\* Python's s.split() without a separator: the maximal runs of characters that
\* are not whitespace.
RECURSIVE ws_split(_)
ws_split(s) == IF s = <<>> THEN <<>> ELSE IF isspace(s[1]) THEN ws_split(Tail(s)) ELSE IF \E i \in 1..Len(s) : isspace(s[i]) THEN <<SubSeq(s, 1, (CHOOSE i \in 1..Len(s) : isspace(s[i]) /\ \A j \in 1..(i - 1) : ~isspace(s[j])) - 1)>> \o ws_split(SubSeq(s, CHOOSE i \in 1..Len(s) : isspace(s[i]) /\ \A j \in 1..(i - 1) : ~isspace(s[j]), Len(s))) ELSE <<s>>

\* [tag.split(':') for tag in allowed_tags.split()]
split_tags(policy) == LET tokens == ws_split(policy) IN [i \in 1..Len(tokens) |-> split(tokens[i], ":")]

\* dict((tag[0], tag[1:]) for tag in allowed_tags): a later entry of a key
\* overwrites an earlier one.
parse_allowed_tags(policy) == LET tags == split_tags(policy) IN [k \in {tags[i][1] : i \in 1..Len(tags)} |-> Tail(tags[CHOOSE i \in 1..Len(tags) : tags[i][1] = k /\ \A j \in (i + 1)..Len(tags) : tags[j][1] # k])]

\* Python's x in list.
contains(list, x) == \E i \in 1..Len(list) : list[i] = x

\* --- js_regex = re.compile(r'[\s]*(&#x.{1,7})?'.join(list('javascript')))

KEYWORD == <<"j", "a", "v", "a", "s", "c", "r", "i", "p", "t">>

\* The length of the run of whitespace of s that starts at index i.
RECURSIVE ws_run(_, _)
ws_run(s, i) == IF i <= Len(s) /\ isspace(s[i]) THEN 1 + ws_run(s, i + 1) ELSE 0

\* Whether '&#x.{n}' matches s at index p: the three characters, then n
\* characters none of which is a line break.
group_at(s, p, n) == p + 2 + n <= Len(s) /\ s[p] = "&" /\ s[p + 1] = "#" /\ s[p + 2] = "x" /\ \A q \in (p + 3)..(p + 2 + n) : s[q] # "\n"

\* The indices at which the next keyword character may stand after w
\* whitespace characters from index i, in the order the regex engine tries
\* them: the group with 7 down to 1 characters, then no group.
after_group(s, p) == [n \in 1..8 |-> IF n = 8 THEN p ELSE IF group_at(s, p, 8 - n) THEN p + 3 + (8 - n) ELSE 0]

\* The separator '[\s]*(&#x.{1,7})?' from index i on: the whitespace is taken
\* greedily (from the whole run down to nothing), then the group.
separator_ends(s, i) == LET W == ws_run(s, i) IN [c \in 1..(8 * (W + 1)) |-> after_group(s, i + W - ((c - 1) \div 8))[((c - 1) % 8) + 1]]

\* The end (exclusive) of the match of the keyword's characters k.. at index i,
\* 0 if there is none: the first alternative, in the engine's order, that lets
\* the rest of the pattern match.
RECURSIVE js_match(_, _, _)
js_match(s, i, k) == IF i < 1 \/ i > Len(s) \/ s[i] # KEYWORD[k] THEN 0 ELSE IF k = Len(KEYWORD) THEN i + 1 ELSE LET ends == separator_ends(s, i + 1) IN LET ok == {c \in 1..Len(ends) : ends[c] # 0 /\ js_match(s, ends[c], k + 1) # 0} IN IF ok = {} THEN 0 ELSE js_match(s, ends[CHOOSE c \in ok : \A c2 \in ok : c <= c2], k + 1)

\* js_regex.sub('', val) from index i on: every match, found from the left, is
\* deleted; the scan goes on behind it.
RECURSIVE js_regex_sub(_, _)
js_regex_sub(val, i) == IF i > Len(val) THEN <<>> ELSE IF js_match(val, i, 1) # 0 THEN js_regex_sub(val, js_match(val, i, 1)) ELSE <<val[i]>> \o js_regex_sub(val, i + 1)

\* --- sanitize

\* An extraction that takes the comments of the top level only.
RECURSIVE extract_comments_toplevel(_)
extract_comments_toplevel(contents) == IF contents = <<>> THEN <<>> ELSE IF Head(contents).type = "comment" THEN extract_comments_toplevel(Tail(contents)) ELSE <<Head(contents)>> \o extract_comments_toplevel(Tail(contents))

\* comment.extract() for every comment soup.findAll(text=...) finds: the
\* comments of every depth leave the tree.
RECURSIVE extract_comments(_)
extract_comments(contents) == IF contents = <<>> THEN <<>> ELSE IF Head(contents).type = "comment" THEN extract_comments(Tail(contents)) ELSE <<[Head(contents) EXCEPT !.contents = extract_comments(@)]>> \o extract_comments(Tail(contents))

\* A comprehension without its condition: every attribute is kept, scrubbed.
filter_attrs_unconditional(attrs, allowed) == [i \in 1..Len(attrs) |-> <<attrs[i][1], js_regex_sub(attrs[i][2], 1)>>]

\* [(attr, js_regex.sub('', val)) for attr, val in tag.attrs if attr in allowed]
RECURSIVE filter_attrs(_, _)
filter_attrs(attrs, allowed) == IF attrs = <<>> THEN <<>> ELSE IF contains(allowed, Head(attrs)[1]) THEN <<<<Head(attrs)[1], js_regex_sub(Head(attrs)[2], 1)>>>> \o filter_attrs(Tail(attrs), allowed) ELSE filter_attrs(Tail(attrs), allowed)

\* The names a tag's attributes are tested against: allowed_tags[tag.name].
allowed_attrs(allowed_tags, name) == allowed_tags[name]

\* The body of the loop over soup.findAll(True) for one tag: hide it when its
\* name is no key of allowed_tags, else filter and scrub its attributes.
clean_tag(tag, allowed_tags) == IF tag.name \notin DOMAIN allowed_tags THEN [tag EXCEPT !.hidden = TRUE] ELSE [tag EXCEPT !.attrs = filter_attrs(@, allowed_attrs(allowed_tags, tag.name))]

\* The loop over soup.findAll(True): every tag of every depth.
RECURSIVE clean_tags(_, _)
clean_tags(contents, allowed_tags) == [i \in 1..Len(contents) |-> IF contents[i].type = "tag" THEN [clean_tag(contents[i], allowed_tags) EXCEPT !.contents = clean_tags(@, allowed_tags)] ELSE contents[i]]

\* The output is a sequence of tokens: a start tag with its attributes, an end
\* tag, a text, a comment.
StartTag(tag) == [tok |-> "start", name |-> tag.name, attrs |-> tag.attrs]
EndTag(tag) == [tok |-> "end", name |-> tag.name, attrs |-> <<>>]
Leaf(node) == [tok |-> node.type, name |-> node.name, attrs |-> <<>>]

\* A rendering that drops a hidden tag with everything below it.
render_tag_drop_subtree(tag, inner) == IF tag.hidden THEN <<>> ELSE <<StartTag(tag)>> \o inner \o <<EndTag(tag)>>

\* What a tag renders to around the rendering of its children: nothing of its
\* own when it is hidden.
render_tag(tag, inner) == IF tag.hidden THEN inner ELSE <<StartTag(tag)>> \o inner \o <<EndTag(tag)>>

\* soup.renderContents().
RECURSIVE renderContents(_)
renderContents(contents) == IF contents = <<>> THEN <<>> ELSE (IF Head(contents).type = "tag" THEN render_tag(Head(contents), renderContents(Head(contents).contents)) ELSE <<Leaf(Head(contents))>>) \o renderContents(Tail(contents))

\* The fragment returned when BeautifulSoup(value) raises: the message, the hint
\* and the numbered input.
Diagnostic == <<[tok |-> "diagnostic", name |-> <<>>, attrs |-> <<>>]>>

\* sanitize(value, allowed_tags).  value is the outcome of BeautifulSoup(value):
\* the tree, or the exception.
sanitize(val, policy) == IF val.parse = "error" THEN Ok(Diagnostic) ELSE Ok(renderContents(clean_tags(extract_comments(val.soup), parse_allowed_tags(policy))))

\* --- the documents and policies the filter is called with

Parsed(contents) == [parse |-> "ok", soup |-> contents]
ParseError == [parse |-> "error", soup |-> <<>>]

HREF == <<"h", "r", "e", "f">>
ID == <<"i", "d">>
\* The elements of the documents, as <<name, attributes>>: <a>, <a id href>,
\* <b>, <b href>.
Elements == {<<<<"a">>, <<>>>>, <<<<"a">>, <<<<ID, <<"n">>>>, <<HREF, <<"u">>>>>>>>, <<<<"b">>, <<>>>>, <<<<"b">>, <<<<HREF, <<"u">>>>>>>>}
Leaves == {Text(<<"x">>), Comment(<<"c">>)}

\* The forests (sequences of trees) of exactly n nodes, and the trees of
\* exactly n nodes.
RECURSIVE ForestsOfSize(_), NodesOfSize(_)
NodesOfSize(n) == (IF n = 1 THEN Leaves ELSE {}) \cup {Tag(e[1], e[2], f) : e \in Elements, f \in ForestsOfSize(n - 1)}
ForestsOfSize(n) == IF n = 0 THEN {<<>>} ELSE UNION {{<<nd>> \o f : nd \in NodesOfSize(k), f \in ForestsOfSize(n - k)} : k \in 1..n}

Documents == {Parsed(f) : f \in UNION {ForestsOfSize(n) : n \in 0..MaxNodes}} \cup {ParseError}

Policies == {<<>>, <<"a">>, <<"b">>, <<"a", ":", "h", "r", "e", "f">>, <<"a", ":", "h", "r", "e", "f", " ", "b">>, <<"a", ":", "i", "d", ":", "h", "r", "e", "f", " ", "b", ":", "i", "d">>, <<"b", ":", "h", "r", "e", "f", " ", "a">>, <<"a", ":", "h", "r", "e", "f", " ", "a">>, <<" ", "a", ":", "i", "d", " ", " ", "b", ":", "h", "r", "e", "f", " ">>}

InitSanitize == pc = "call" /\ value \in Documents /\ arg \in Policies /\ ret = NoRet

Call_sanitize == pc = "call" /\ pc' = "done" /\ ret' = sanitize(value, arg) /\ UNCHANGED <<value, arg>>

SpecSanitize == InitSanitize /\ [][Call_sanitize]_vars

\* Attribute values are built from pieces of the keyword and of what may stand
\* between its characters.
Chunks == {<<"j", "a">>, <<"v", "a">>, <<"s", "c", "r", "i", "p", "t">>, <<"v", "a", "s", "c", "r", "i", "p", "t">>, <<"j", "a", "v", "a", "s", "c", "r", "i", "p", "t">>, <<"J">>, <<"A">>, <<" ">>, <<"&", "#", "x", "0", "9", ";">>, <<":", "x">>}

RECURSIVE concat(_)
concat(ss) == IF ss = <<>> THEN <<>> ELSE Head(ss) \o concat(Tail(ss))

ScrubValues == {concat(cs) : cs \in StrUpTo(Chunks, MaxChunks)}
ScrubDocuments == {Parsed(<<Tag(<<"a">>, <<<<HREF, v>>>>, <<>>)>>) : v \in ScrubValues}

InitScrub == pc = "call" /\ value \in ScrubDocuments /\ arg = <<"a", ":", "h", "r", "e", "f">> /\ ret = NoRet

SpecScrub == InitScrub /\ [][Call_sanitize]_vars

\* --- what the claims about sanitize speak of

\* The nodes of a forest in document order (every node before its children).
RECURSIVE Flatten(_)
Flatten(contents) == IF contents = <<>> THEN <<>> ELSE <<Head(contents)>> \o Flatten(Head(contents).contents) \o Flatten(Tail(contents))

\* The tags of a forest in the order of their end tags (every tag after its
\* children).
RECURSIVE FlattenPost(_)
FlattenPost(contents) == IF contents = <<>> THEN <<>> ELSE FlattenPost(Head(contents).contents) \o <<Head(contents)>> \o FlattenPost(Tail(contents))

\* The subsequence of the elements of seq that satisfy Test.
Select(seq, Test(_)) == SelectSeq(seq, Test)

\* The tag names that are keys of the policy, and the attribute names the
\* policy lists for a key.
PolicyKeys(policy) == DOMAIN parse_allowed_tags(policy)
PolicyAttrs(policy, name) == LET listed == parse_allowed_tags(policy)[name] IN {listed[i] : i \in 1..Len(listed)}

\* The forest with every element whose name is not among keys replaced by its
\* children.
RECURSIVE Unwrap(_, _)
Unwrap(contents, keys) == IF contents = <<>> THEN <<>> ELSE (IF Head(contents).type = "tag" /\ Head(contents).name \notin keys THEN Unwrap(Head(contents).contents, keys) ELSE <<[Head(contents) EXCEPT !.contents = Unwrap(@, keys)]>>) \o Unwrap(Tail(contents), keys)

Names(seq) == [i \in 1..Len(seq) |-> seq[i].name]
AttrNames(attrs) == [i \in 1..Len(attrs) |-> attrs[i][1]]

IsText(n) == n.type = "text"
IsTextTok(t) == t.tok = "text"
IsStartTok(t) == t.tok = "start"
IsEndTok(t) == t.tok = "end"

P_a == <<"a">>
P_ahref_b == <<"a", ":", "h", "r", "e", "f", " ", "b">>

\* C2: sanitize unwraps every element whose name is no key of the policy, at
\* any depth: no start or end tag of such an element is in the output, every
\* text and every allowed element below it is rendered, in document order, and
\* the output is that of the document with these elements replaced by their
\* children.
C2_Unwrap ==
    (pc = "done" /\ value.parse = "ok") =>
        LET keys == PolicyKeys(arg)
            nodes == Flatten(value.soup)
            IsAllowedTag(n) == n.type = "tag" /\ n.name \in keys
        IN /\ ret.kind = "ok"
           /\ \A i \in 1..Len(ret.val) : ret.val[i].tok \in {"start", "end"} => ret.val[i].name \in keys
           /\ Names(Select(ret.val, IsTextTok)) = Names(Select(nodes, IsText))
           /\ Names(Select(ret.val, IsStartTok)) = Names(Select(nodes, IsAllowedTag))
           /\ Names(Select(ret.val, IsEndTok)) = Names(Select(FlattenPost(value.soup), IsAllowedTag))
           /\ ret.val = sanitize(Parsed(Unwrap(value.soup, keys)), arg).val

\* A document whose first element is not allowed and holds an allowed element
\* that holds a text has been rendered to the allowed element around the text.
C2_Witness ==
    /\ pc = "done" /\ value.parse = "ok" /\ Len(value.soup) = 1
    /\ value.soup[1].type = "tag" /\ value.soup[1].name \notin PolicyKeys(arg)
    /\ Len(value.soup[1].contents) = 1 /\ value.soup[1].contents[1].type = "tag"
    /\ value.soup[1].contents[1].name \in PolicyKeys(arg)
    /\ Len(value.soup[1].contents[1].contents) = 1 /\ value.soup[1].contents[1].contents[1].type = "text"
    /\ Len(ret.val) = 3 /\ ret.val[1].tok = "start" /\ ret.val[2].tok = "text" /\ ret.val[3].tok = "end"

\* C3: the start tags of the output are those of the elements whose name is a
\* key of the policy, in document order, each with exactly its attributes whose
\* name the policy lists for that tag, in their order; a tag listed without
\* attributes keeps none, and an attribute listed for one tag is not kept on
\* another.
C3_AttrsFiltered ==
    (pc = "done" /\ value.parse = "ok") =>
        LET keys == PolicyKeys(arg)
            IsAllowedTag(n) == n.type = "tag" /\ n.name \in keys
            starts == Select(ret.val, IsStartTok)
            tags == Select(Flatten(value.soup), IsAllowedTag)
        IN /\ ret.kind = "ok"
           /\ Len(starts) = Len(tags)
           /\ \A i \in 1..Len(starts) :
                LET listed == PolicyAttrs(arg, tags[i].name)
                    Listed(a) == a[1] \in listed
                IN /\ starts[i].name = tags[i].name
                   /\ AttrNames(starts[i].attrs) = AttrNames(Select(tags[i].attrs, Listed))
           /\ (arg = P_a => \A i \in 1..Len(starts) : starts[i].name = <<"a">> /\ starts[i].attrs = <<>>)
           /\ (arg = P_ahref_b => \A i \in 1..Len(starts) : starts[i].name = <<"b">> => starts[i].attrs = <<>>)
           /\ (arg = P_ahref_b => \A i \in 1..Len(starts) : starts[i].name = <<"a">> => \A j \in 1..Len(starts[i].attrs) : starts[i].attrs[j][1] = HREF)

\* Under the policy 'a:href b' an <a id href> has kept its href only and a
\* <b href> below it has lost its href.
C3_Witness ==
    /\ pc = "done" /\ value.parse = "ok" /\ arg = P_ahref_b
    /\ Len(value.soup) = 1 /\ value.soup[1].type = "tag" /\ value.soup[1].name = <<"a">> /\ Len(value.soup[1].attrs) = 2
    /\ Len(value.soup[1].contents) = 1 /\ value.soup[1].contents[1].type = "tag" /\ value.soup[1].contents[1].name = <<"b">>
    /\ Len(value.soup[1].contents[1].attrs) = 1
    /\ Len(ret.val) = 4 /\ AttrNames(ret.val[1].attrs) = <<HREF>> /\ ret.val[2].tok = "start" /\ ret.val[2].attrs = <<>>

\* C4: no comment is in the output, wherever it was in the tree, nothing
\* stands in its place, and the texts and elements keep their order.
C4_NoComments ==
    (pc = "done" /\ value.parse = "ok") =>
        LET keys == PolicyKeys(arg)
            nodes == Flatten(value.soup)
            IsAllowedTag(n) == n.type = "tag" /\ n.name \in keys
        IN /\ ret.kind = "ok"
           /\ \A i \in 1..Len(ret.val) : ret.val[i].tok \in {"start", "end", "text"}
           /\ Names(Select(ret.val, IsTextTok)) = Names(Select(nodes, IsText))
           /\ Len(ret.val) = Len(Select(nodes, IsText)) + 2 * Len(Select(nodes, IsAllowedTag))

\* A document with a comment inside an element that is not allowed, which is
\* inside an allowed one, has been rendered.
C4_Witness ==
    /\ pc = "done" /\ value.parse = "ok" /\ Len(value.soup) = 1
    /\ value.soup[1].type = "tag" /\ value.soup[1].name \in PolicyKeys(arg)
    /\ Len(value.soup[1].contents) = 1 /\ value.soup[1].contents[1].type = "tag"
    /\ value.soup[1].contents[1].name \notin PolicyKeys(arg)
    /\ Len(value.soup[1].contents[1].contents) = 1 /\ value.soup[1].contents[1].contents[1].type = "comment"
    /\ Len(ret.val) = 2

\* Whether the keyword is found in s, in any letter case, with whitespace or a
\* '&#x' reference between its characters.
Detects(s) == \E i \in 1..Len(s) : js_match(casefold(s), i, 1) # 0

\* C1: no attribute value in the output contains the keyword: every occurrence,
\* in any letter case and with whitespace or references between its characters,
\* has been deleted, and nothing that matches is left.
C1_ScrubbedValueClean ==
    (pc = "done" /\ value.parse = "ok") =>
        \A i \in 1..Len(ret.val) : \A j \in 1..Len(ret.val[i].attrs) : ~Detects(ret.val[i].attrs[j][2])

====
